---- MODULE Spec2Model ----
(***************************************************************************)
(* State-machine model of rapid-d-kit/typescript-async:                    *)
(*   Semaphore (src/src/semaphore.ts), Mutex (src/src/mutex.ts),           *)
(*   MutableToken / CancellationTokenSource / promises.withAsyncBody       *)
(*   (src/unnamed/part_001) and WeakEventEmitter (src/unnamed/part_000).   *)
(*                                                                         *)
(* Every public method is one action: the whole synchronous handler,       *)
(* including the flush it ends with.  Promises are modelled by their       *)
(* settlement state; the continuation of an async function is a separate   *)
(* action (it runs on a later microtask).                                  *)
(***************************************************************************)
EXTENDS Integers, Sequences, FiniteSets, TLC

\* ---------------------------------------------------------------- bounds
MaxReq == 2         \* acquire() calls per run
MaxWaiters == 1     \* registered whenUnlock() calls per run
MaxValue == 2       \* largest capacity given to the constructor, setValue and release
MaxRuns == 1        \* runExclusive() calls per run

\* The weights and priorities the calls draw from: a head that does not fit beside
\* one that does, and both orders of two priorities beside a tie.
Weights == {1, 2}
Priorities == {0, 5}
\* cancel(reason) and cancelPending(reason): no reason, or the string 'x'
Reasons == {"undefined", "x"}
\* the token handed to runExclusive: CancellationToken.None (the default) or the
\* token of source P
RunTokens == {"None", "P"}
\* P: a source without parent; C: a source constructed with P.token as parent
Sources == {"P", "C"}
ReqIds == 1..MaxReq
WaiterIds == 1..MaxWaiters
RunIds == 1..MaxRuns

VARIABLES
  value,            \* Semaphore.#value
  queue,            \* Semaphore.#queue : Seq of Entry [id, weight, priority]
  weightedWaiters,  \* Semaphore.#weightedWaiters : slot weight -> Seq of Waiter [id, priority]
  entries,          \* per acquire() call: its promise and its releaser closure
  notify,           \* per registered whenUnlock() call: its promise
  mutex,            \* TRUE: the semaphore is the #semaphore of a Mutex, driven through it
  runs,             \* per runExclusive() call: where its async body stands, its promise
  src,              \* per CancellationTokenSource: its fields and those of its token
  deferred,         \* callbacks handed to EventLoop.immediate, not yet run
  last,             \* the operation that ran last (its name and arguments)
  log               \* grants and whenUnlock resolutions made by that operation, in order

semVars == <<value, queue, weightedWaiters, entries, notify>>
vars == <<value, queue, weightedWaiters, entries, notify, mutex, runs, src, deferred, last, log>>

\* -------------------------------------------------------------- helpers
\* st: the acquire promise; weight, called: the variables of the #releaser closure
\* created at the grant (weight 0: no closure yet)
\* reason: what the promise was rejected with
NoEntry == [st |-> "none", weight |-> 0, called |-> FALSE, reason |-> "none"]

\* pre: the capacity the operation found
NoOp == [op |-> "init", id |-> 0, weight |-> 0, priority |-> 0, reason |-> "none", pre |-> 0]

Op(name, id, weight, priority) ==
  [op |-> name, id |-> id, weight |-> weight, priority |-> priority,
   reason |-> "none", pre |-> value]

\* pc: idle (not called), acquiring (awaiting acquire), body (awaiting callback),
\* done; promise: the future runExclusive returned; req: its acquire() call
NoRun == [pc |-> "idle", promise |-> "none", req |-> 0, tok |-> "None"]

\* CancellationTokenSource: made (constructed), token (_token: null, the None or
\* Cancelled sentinel, or a MutableToken), handle (_parentListener: none, or the
\* handle of a deferred call);  its MutableToken: cancelled (_isCancelled),
\* emitter (_emitter: null or a WeakEventEmitter) with its listeners in
\* registration order.  liveParent, disposed: what happened to the source.
\* A caller's own listener on the token: uhandle (what onCancellationRequested
\* returned to the caller: unset before the call, then as `handle`), udisposed (the
\* caller has called dispose() on that result), heard (calls of the listener),
\* arg (the argument of its last call).
NoSource ==
  [made |-> FALSE, token |-> "null", handle |-> "none", cancelled |-> FALSE,
   emitter |-> "null", listeners |-> <<>>, liveParent |-> FALSE, disposed |-> FALSE,
   uhandle |-> "unset", udisposed |-> FALSE, heard |-> 0, arg |-> "none"]

\* The objects' fields as one value, threaded through the methods.
Sem ==
  [value |-> value, queue |-> queue, ww |-> weightedWaiters,
   entries |-> entries, notify |-> notify, runs |-> runs, src |-> src,
   deferred |-> deferred, log |-> <<>>]

\* Array.prototype.splice(at, 0, x) with a 0-based index
SpliceIn(seq, at, x) ==
  SubSeq(seq, 1, at) \o <<x>> \o SubSeq(seq, at + 1, Len(seq))

\* faulty variant: the comparison of acquire's search made strict (priority < other.priority)
FindLastIndexLT(seq, priority) ==
  LET hits == {k \in 1..Len(seq) : priority < seq[k].priority}
  IN IF hits = {} THEN -1 ELSE (CHOOSE k \in hits : \A j \in hits : j <= k) - 1

\* Iterable.findLastIndex(queue, other => priority <= other.priority), 0-based, -1 if none
FindLastIndexLE(seq, priority) ==
  LET hits == {k \in 1..Len(seq) : priority <= seq[k].priority}
  IN IF hits = {} THEN -1 ELSE (CHOOSE k \in hits : \A j \in hits : j <= k) - 1

\* faulty variant: the cut of the notify pass made strict (item.priority < pp)
FindIndexLT(seq, pp) ==
  LET hits == {k \in 1..Len(seq) : seq[k].priority < pp}
  IN IF hits = {} THEN -1 ELSE (CHOOSE k \in hits : \A j \in hits : k <= j) - 1

\* waiters.findIndex(item => item.priority <= pp), 0-based, -1 if none
FindIndexLE(seq, pp) ==
  LET hits == {k \in 1..Len(seq) : seq[k].priority <= pp}
  IN IF hits = {} THEN -1 ELSE (CHOOSE k \in hits : \A j \in hits : k <= j) - 1

\* function _insertSorted(arr, value)
insertSorted(arr, w) ==
  SpliceIn(arr, FindLastIndexLE(arr, w.priority) + 1, w)

\* item.resolve() for each waiter of `items`, in order: a pending promise becomes
\* resolved (and the resolution is logged with the queue of that moment); resolving
\* a settled promise does nothing.
RECURSIVE ResolveAll(_, _, _)
ResolveAll(s, items, weight) ==
  IF items = <<>> THEN s
  ELSE LET it == Head(items)
           s1 == IF s.notify[it.id] = "pending"
                 THEN [s EXCEPT !.notify[it.id] = "resolved",
                                !.log = Append(@, [kind |-> "resolve", id |-> it.id,
                                                   weight |-> weight,
                                                   priority |-> it.priority,
                                                   queue |-> s.queue])]
                 ELSE s
       IN ResolveAll(s1, Tail(items), weight)

\* One iteration of the for loops of #drainUnlockWaiters, for slot `weight`
DrainSlot(s, weight) ==
  IF weight \notin Weights THEN s        \* !waiters: no such slot
  ELSE LET waiters == s.ww[weight]
       IN IF s.queue = <<>>
          THEN [ResolveAll(s, waiters, weight) EXCEPT !.ww[weight] = <<>>]
          ELSE LET pp == s.queue[1].priority
                   index == FindIndexLE(waiters, pp)
               IN IF index = -1
                  THEN ResolveAll(s, waiters, weight)
                  ELSE [ResolveAll(s, SubSeq(waiters, 1, index), weight)
                          EXCEPT !.ww[weight] = SubSeq(waiters, index + 1, Len(waiters))]

RECURSIVE DrainFrom(_, _)
DrainFrom(s, weight) ==
  IF weight <= 0 THEN s ELSE DrainFrom(DrainSlot(s, weight), weight - 1)

\* faulty variant: the loops start one slot above the capacity
drainOneSlotAbove(s) == DrainFrom(s, s.value + 1)

\* Semaphore.#drainUnlockWaiters
drainUnlockWaiters(s) == DrainFrom(s, s.value)

\* faulty variant: the grant without `this.#value -= entry.weight`
dispatchNoDebit(s, entry) ==
  [s EXCEPT !.entries[entry.id] =
               IF @.st = "pending"
               THEN [@ EXCEPT !.st = "granted", !.weight = entry.weight] ELSE @,
            !.log = Append(@, [kind |-> "grant", id |-> entry.id,
                               weight |-> entry.weight, priority |-> entry.priority,
                               queue |-> s.queue])]

\* Semaphore.#dispatch(entry) with the #releaser closure it creates; the grant is
\* logged with the queue of that moment
dispatch(s, entry) ==
  [s EXCEPT !.value = @ - entry.weight,
            !.entries[entry.id] =
               IF @.st = "pending"
               THEN [@ EXCEPT !.st = "granted", !.weight = entry.weight] ELSE @,
            !.log = Append(@, [kind |-> "grant", id |-> entry.id,
                               weight |-> entry.weight, priority |-> entry.priority,
                               queue |-> s.queue])]

\* faulty variant: the while loop without its `weight <= this.#value` test
RECURSIVE FlushLoopNoFit(_)
FlushLoopNoFit(s) ==
  IF s.queue # <<>>
  THEN FlushLoopNoFit(drainUnlockWaiters(
                        dispatch([s EXCEPT !.queue = Tail(@)], Head(s.queue))))
  ELSE s

\* Semaphore.#flushQueue
RECURSIVE FlushLoop(_)
FlushLoop(s) ==
  IF s.queue # <<>> /\ s.queue[1].weight <= s.value
  THEN FlushLoop(drainUnlockWaiters(
                   dispatch([s EXCEPT !.queue = Tail(@)], Head(s.queue))))
  ELSE s

\* faulty variant: the notify pass runs only after a dispatch, not on entry
flushQueueNoFirstDrain(s) == FlushLoop(s)

flushQueue(s) == FlushLoop(drainUnlockWaiters(s))

\* Semaphore.#DoRelease(weight)
DoRelease(s, weight) == flushQueue([s EXCEPT !.value = @ + weight])

\* faulty variant: the queue head is not looked at
couldLockIgnoringQueue(s, weight, priority) == weight <= s.value

\* Semaphore.#couldLockImmediately(weight, priority)
couldLockImmediately(s, weight, priority) ==
  /\ (s.queue = <<>> \/ s.queue[1].priority < priority)
  /\ weight <= s.value

\* the objects' new fields and the log of the operation
Commit(s, op) ==
  /\ mutex' = mutex
  /\ runs' = s.runs
  /\ src' = s.src
  /\ deferred' = s.deferred
  /\ value' = s.value
  /\ queue' = s.queue
  /\ weightedWaiters' = s.ww
  /\ entries' = s.entries
  /\ notify' = s.notify
  /\ log' = s.log
  /\ last' = op

FreeReq == {i \in ReqIds : entries[i].st = "none" /\ \A j \in ReqIds : j < i => entries[j].st # "none"}
FreeWaiter == {i \in WaiterIds : notify[i] = "none" /\ \A j \in WaiterIds : j < i => notify[j] # "none"}

\* --------------------------------------------------------------- actions
\* faulty variant: dispatches whenever the weight fits, whatever the queue holds
acquireUngated(s, id, weight, priority) ==
  LET task == [id |-> id, weight |-> weight, priority |-> priority]
      s0 == [s EXCEPT !.entries[id].st = "pending"]
      i == FindLastIndexLE(s.queue, priority)
  IN IF weight <= s.value
     THEN dispatch(s0, task)
     ELSE [s0 EXCEPT !.queue = SpliceIn(@, i + 1, task)]

\* Semaphore.acquire(weight, priority), body of the promise executor
acquire(s, id, weight, priority) ==
  LET task == [id |-> id, weight |-> weight, priority |-> priority]
      s0 == [s EXCEPT !.entries[id].st = "pending"]
      i == FindLastIndexLE(s.queue, priority)
  IN IF i = -1 /\ weight <= s.value
     THEN dispatch(s0, task)
     ELSE [s0 EXCEPT !.queue = SpliceIn(@, i + 1, task)]

Acquire(id, weight, priority) ==
  /\ id \in FreeReq
  /\ Commit(acquire(Sem, id, weight, priority), Op("acquire", id, weight, priority))

\* Semaphore.release(weight)
Release(weight) ==
  /\ value + weight <= MaxValue
  /\ Commit(DoRelease(Sem, weight), Op("release", 0, weight, 0))

\* faulty variant: the closure without its `called` guard
releaserUnguarded(s, id) ==
  DoRelease([s EXCEPT !.entries[id].called = TRUE], s.entries[id].weight)

\* the closure returned by Semaphore.#releaser(weight), handed out with grant `id`
releaser(s, id) ==
  IF s.entries[id].called THEN s
  ELSE DoRelease([s EXCEPT !.entries[id].called = TRUE], s.entries[id].weight)

\* a caller of acquire() calls the release callback it was handed (runExclusive
\* keeps the callback of its own grant to itself)
Releaser(id) ==
  /\ entries[id].st = "granted"
  /\ \A r \in RunIds : runs[r].req # id
  /\ Commit(releaser(Sem, id), Op("releaser", id, entries[id].weight, 0))

\* faulty variant: setValue only stores the capacity
SetValueNoFlush(v) ==
  /\ Commit([Sem EXCEPT !.value = v], Op("setValue", 0, v, 0))

\* Semaphore.setValue(value)
SetValue(v) ==
  /\ Commit(flushQueue([Sem EXCEPT !.value = v]), Op("setValue", 0, v, 0))

\* Semaphore.cancelPending(reason)
\* the for loop of cancelPending: this.#queue[i].reject(reason), logged
RECURSIVE RejectAll(_, _, _)
RejectAll(s, q, reason) ==
  IF q = <<>> THEN s
  ELSE LET e == Head(q)
           s1 == IF s.entries[e.id].st = "pending"
                 THEN [s EXCEPT !.entries[e.id].st = "rejected",
                                !.entries[e.id].reason = reason,
                                !.log = Append(@, [kind |-> "reject", id |-> e.id,
                                                   weight |-> e.weight,
                                                   priority |-> e.priority,
                                                   queue |-> s.queue])]
                 ELSE s
       IN RejectAll(s1, Tail(q), reason)

\* faulty variant: the rejected entries stay in the queue
cancelPendingKeepsQueue(s, reason) == RejectAll(s, s.queue, reason)

cancelPending(s, reason) ==
  [RejectAll(s, s.queue, reason) EXCEPT !.queue = <<>>]

CancelPending(reason) ==
  /\ Commit(cancelPending(Sem, reason),
            [Op("cancelPending", 0, 0, 0) EXCEPT !.reason = reason])

\* Semaphore.whenUnlock(weight, priority)
whenUnlock(s, id, weight, priority) ==
  IF couldLockImmediately(s, weight, priority)
  THEN [s EXCEPT !.log = Append(@, [kind |-> "resolve", id |-> 0, weight |-> weight,
                                    priority |-> priority, queue |-> s.queue])]
  ELSE [s EXCEPT !.notify[id] = "pending",
                 !.ww[weight] = insertSorted(@, [id |-> id, priority |-> priority])]

WhenUnlock(id, weight, priority) ==
  /\ id \in FreeWaiter
  /\ Commit(whenUnlock(Sem, id, weight, priority), Op("whenUnlock", id, weight, priority))

\* ---------------------------------------------------- cancellation tokens
Listener(kind, source, run) == [kind |-> kind, source |-> source, run |-> run]

\* listener(...args) in WeakEventEmitter.fire spreads the reason itself, not an
\* argument list: a string is iterable, undefined is not and the spread throws
\* inside the try block (the private #fields of the class need a target with
\* native spread)
Spreadable(reason) == reason # "undefined"

\* get CancellationTokenSource.token
readToken(s, n) ==
  IF s.src[n].token = "null" THEN [s EXCEPT !.src[n].token = "Mutable"] ELSE s

\* isCancellationRequested of the token object held in _token
isCancellationRequested(s, n) ==
  \/ s.src[n].token = "Cancelled"
  \/ s.src[n].token = "Mutable" /\ s.src[n].cancelled

\* faulty variant: the callback is handed to the event loop twice
shortcutEventTwice(s, l) == [s EXCEPT !.deferred = Append(Append(@, l), l)]

\* shortcutEvent(callback, context): EventLoop.immediate(callback.bind(context))
shortcutEvent(s, l) == [s EXCEPT !.deferred = Append(@, l)]

\* WeakEventEmitter.addListener('cancellationrequest', listener, options): a Set
addListener(s, n, l) ==
  IF \E k \in 1..Len(s.src[n].listeners) : s.src[n].listeners[k] = l THEN s
  ELSE [s EXCEPT !.src[n].listeners = Append(@, l)]

\* token.onCancellationRequested(listener, thisArgs) on the token object of source n
onCancellationRequested(s, n, l) ==
  CASE s.src[n].token = "None" -> s
    [] isCancellationRequested(s, n) -> shortcutEvent(s, l)
    [] OTHER -> addListener([s EXCEPT !.src[n].emitter = "live"], n, l)

\* what that call returns: the frozen no-op handle of None, the handle of the
\* deferred call, or the void result of addListener
handleReturned(s, n) ==
  CASE s.src[n].token = "None" -> "noop"
    [] isCancellationRequested(s, n) -> "immediate"
    [] OTHER -> "none"

\* MutableToken.dispose
tokenDispose(s, n) ==
  [s EXCEPT !.src[n].emitter = "null", !.src[n].listeners = <<>>]

RECURSIVE sourceCancel(_, _, _)

\* One listener called.  bound: called through callback.bind(context); from fire it
\* is called as a plain function, and CancellationTokenSource.cancel then reads
\* this._token of undefined: the TypeError is swallowed by fire's catch.
InvokeListener(s, l, reason, bound) ==
  CASE l.kind = "cascade" -> IF bound THEN sourceCancel(s, l.source, reason) ELSE s
    [] l.kind = "reject" ->
         [s EXCEPT !.runs[l.run].promise = IF @ = "pending" THEN "rejected" ELSE @]
    [] l.kind = "user" ->
         [s EXCEPT !.src[l.source].heard = @ + 1,
                   !.src[l.source].arg = IF bound THEN "undefined" ELSE reason]
    [] OTHER -> s

RECURSIVE FireAll(_, _, _)
FireAll(s, ls, reason) ==
  IF ls = <<>> THEN s
  ELSE FireAll(InvokeListener(s, Head(ls), reason, FALSE), Tail(ls), reason)

\* WeakEventEmitter.fire('cancellationrequest', reason)
fire(s, n, reason) ==
  IF Spreadable(reason) THEN FireAll(s, s.src[n].listeners, reason) ELSE s

\* MutableToken.cancel(reason)
tokenCancel(s, n, reason) ==
  IF s.src[n].cancelled THEN s
  ELSE LET s1 == [s EXCEPT !.src[n].cancelled = TRUE]
       IN IF s1.src[n].emitter = "null" THEN tokenDispose(s1, n)
          ELSE tokenDispose(fire(s1, n, reason), n)

\* CancellationTokenSource.cancel(reason)
sourceCancel(s, n, reason) ==
  CASE s.src[n].token = "null" -> [s EXCEPT !.src[n].token = "Cancelled"]
    [] s.src[n].token = "Mutable" -> tokenCancel(s, n, reason)
    [] OTHER -> s

\* the handle of a deferred call disposed: the call is dropped
dropDeferred(s, n) ==
  [s EXCEPT !.deferred = SelectSeq(@, LAMBDA l : ~(l.kind = "cascade" /\ l.source = n))]

\* faulty variant: dispose() puts None over every token that is not a MutableToken
sourceDisposeOverwrites(s, n, cancelFirst, reason) ==
  LET s1 == IF cancelFirst THEN sourceCancel(s, n, reason) ELSE s
      s2 == IF s1.src[n].handle = "immediate" THEN dropDeferred(s1, n) ELSE s1
      s3 == [s2 EXCEPT !.src[n].disposed = TRUE]
  IN IF s3.src[n].token = "Mutable" THEN tokenDispose(s3, n)
     ELSE [s3 EXCEPT !.src[n].token = "None"]

\* CancellationTokenSource.dispose(cancel, cancellationReason)
sourceDispose(s, n, cancelFirst, reason) ==
  LET s1 == IF cancelFirst THEN sourceCancel(s, n, reason) ELSE s
      s2 == IF s1.src[n].handle = "immediate" THEN dropDeferred(s1, n) ELSE s1
      s3 == [s2 EXCEPT !.src[n].disposed = TRUE]
  IN CASE s3.src[n].token = "null" -> [s3 EXCEPT !.src[n].token = "None"]
       [] s3.src[n].token = "Mutable" -> tokenDispose(s3, n)
       [] OTHER -> s3

\* new CancellationTokenSource(P.token)
construct(s) ==
  LET s1 == readToken(s, "P")
      s2 == onCancellationRequested(s1, "P", Listener("cascade", "C", 0))
  IN [s2 EXCEPT !.src["C"].made = TRUE,
                !.src["C"].handle = handleReturned(s1, "P"),
                !.src["C"].liveParent = ~isCancellationRequested(s1, "P")]

Construct ==
  /\ ~src["C"].made
  /\ Commit(construct(Sem), Op("construct", 0, 0, 0))

ReadToken(n) ==
  /\ src[n].made
  /\ src[n].token = "null"
  /\ Commit(readToken(Sem, n), [Op("token", 0, 0, 0) EXCEPT !.reason = n])

SourceCancel(n, reason) ==
  /\ src[n].made
  /\ Commit(sourceCancel(Sem, n, reason), [Op("cancel" \o n, 0, 0, 0) EXCEPT !.reason = reason])

SourceDispose(n, cancelFirst, reason) ==
  /\ src[n].made
  /\ ~src[n].disposed
  /\ Commit(sourceDispose(Sem, n, cancelFirst, reason),
            [Op("dispose" \o n, 0, 0, 0) EXCEPT !.reason = reason])

\* a later turn of the event loop runs the oldest deferred callback, bound
RunDeferred ==
  /\ deferred # <<>>
  /\ Commit(InvokeListener([Sem EXCEPT !.deferred = Tail(@)], Head(deferred), "undefined", TRUE),
            Op("immediate", 0, 0, 0))

\* a caller registers its own listener: source.token.onCancellationRequested(listener)
listen(s, n) ==
  LET s1 == readToken(s, n)
      s2 == onCancellationRequested(s1, n, Listener("user", n, 0))
  IN [s2 EXCEPT !.src[n].uhandle = handleReturned(s1, n)]

Listen(n) ==
  /\ src[n].made
  /\ src[n].uhandle = "unset"
  /\ Commit(listen(Sem, n), [Op("listen", 0, 0, 0) EXCEPT !.reason = n])

\* the caller calls dispose() on what the registration returned: the handle of a
\* deferred call drops the call, the frozen handle of None does nothing, and the
\* void result of addListener has no dispose() to call (a TypeError at the caller)
disposeHandle(s, n) ==
  LET s1 == IF s.src[n].uhandle = "immediate"
            THEN [s EXCEPT !.deferred =
                     SelectSeq(@, LAMBDA l : ~(l.kind = "user" /\ l.source = n))]
            ELSE s
  IN [s1 EXCEPT !.src[n].udisposed = TRUE]

DisposeHandle(n) ==
  /\ src[n].uhandle # "unset"
  /\ ~src[n].udisposed
  /\ Commit(disposeHandle(Sem, n), [Op("disposeHandle", 0, 0, 0) EXCEPT !.reason = n])

\* ------------------------------------------------- runExclusive and Mutex
\* the token object runExclusive was given
tokenCancelled(s, tok) == tok # "None" /\ isCancellationRequested(s, tok)

\* reject(...) / resolve(...) of the future of run r: the first settlement stays
settle(s, r, how) ==
  [s EXCEPT !.runs[r].promise = IF @ = "pending" THEN how ELSE @]

\* Semaphore.runExclusive up to its first await (lines 64-74)
runExclusive(s, r, id, weight, priority, tok) ==
  LET s0 == [(IF tok = "None" THEN s ELSE readToken(s, tok))
               EXCEPT !.runs[r] = [pc |-> "acquiring", promise |-> "pending",
                                   req |-> 0, tok |-> tok]]
  IN IF tokenCancelled(s0, tok)
     THEN [settle(s0, r, "rejected") EXCEPT !.runs[r].pc = "done"]
     ELSE LET s1 == IF tok = "None" THEN s0
                    ELSE onCancellationRequested(s0, tok, Listener("reject", "none", r))
          IN acquire([s1 EXCEPT !.runs[r].req = id], id, weight, priority)

\* the continuation after `await this.acquire(...)`: the callback is called, or the
\* rejection of acquire leaves the async body and withAsyncBody rejects
runResume(s, r) ==
  IF s.entries[s.runs[r].req].st = "granted"
  THEN [s EXCEPT !.runs[r].pc = "body"]
  ELSE [settle(s, r, "rejected") EXCEPT !.runs[r].pc = "done"]

\* faulty variant: release() at the end of the try block instead of in finally
runBodyEndNoFinally(s, r, outcome) ==
  LET s1 == IF outcome = "throw" THEN settle(s, r, "rejected")
            ELSE IF tokenCancelled(s, s.runs[r].tok) THEN settle(s, r, "rejected")
            ELSE releaser(settle(s, r, "resolved"), s.runs[r].req)
  IN [s1 EXCEPT !.runs[r].pc = "done"]

\* the continuation after `await callback(value)` (lines 77-89)
runBodyEnd(s, r, outcome) ==
  LET s1 == IF outcome = "throw" THEN settle(s, r, "rejected")
            ELSE IF tokenCancelled(s, s.runs[r].tok) THEN settle(s, r, "rejected")
            ELSE settle(s, r, "resolved")
  IN [releaser(s1, s.runs[r].req) EXCEPT !.runs[r].pc = "done"]

RunWeights == IF mutex THEN {1} ELSE Weights

RunExclusive(r, id, weight, priority, tok) ==
  /\ runs[r].pc = "idle"
  /\ \A q \in RunIds : q < r => runs[q].pc # "idle"
  /\ id \in FreeReq
  /\ Commit(runExclusive(Sem, r, id, weight, priority, tok),
            [Op("runExclusive", r, weight, priority) EXCEPT !.reason = tok])

RunResume(r) ==
  /\ runs[r].pc = "acquiring"
  /\ entries[runs[r].req].st \in {"granted", "rejected"}
  /\ Commit(runResume(Sem, r), Op("runResume", r, 0, 0))

RunBodyEnd(r, outcome) ==
  /\ runs[r].pc = "body"
  /\ Commit(runBodyEnd(Sem, r, outcome), [Op("runBodyEnd", r, 0, 0) EXCEPT !.reason = outcome])

\* Semaphore.isLocked
isLocked(s) == s.value <= 0

\* Mutex.release
mutexRelease(s) == IF isLocked(s) THEN DoRelease(s, 1) ELSE s

MutexRelease ==
  /\ mutex
  /\ Commit(mutexRelease(Sem), Op("mutexRelease", 0, 1, 0))

\* Mutex.cancel
MutexCancel ==
  /\ mutex
  /\ Commit(cancelPending(Sem, "undefined"),
            [Op("cancelPending", 0, 0, 0) EXCEPT !.reason = "undefined"])

\* -------------------------------------------------------- specification
InitValues == 0..MaxValue

Init ==
  /\ value \in InitValues
  /\ queue = <<>>
  /\ weightedWaiters = [w \in Weights |-> <<>>]
  /\ entries = [i \in ReqIds |-> NoEntry]
  /\ notify = [i \in WaiterIds |-> "none"]
  /\ mutex = FALSE
  /\ runs = [r \in RunIds |-> NoRun]
  /\ src = [n \in Sources |-> NoSource]
  /\ deferred = <<>>
  /\ last = NoOp
  /\ log = <<>>

Next ==
  \/ \E id \in ReqIds, w \in Weights, p \in Priorities : Acquire(id, w, p)
  \/ \E w \in Weights : Release(w)
  \/ \E id \in ReqIds : Releaser(id)
  \/ \E v \in 0..MaxValue : SetValue(v)
  \/ \E r \in Reasons : CancelPending(r)
  \/ \E id \in WaiterIds, w \in Weights, p \in Priorities : WhenUnlock(id, w, p)

Spec == Init /\ [][Next]_vars

\* A semaphore, or the semaphore of a Mutex, driven through acquire, release,
\* runExclusive and cancel, with the token of source P
InitRun ==
  /\ mutex \in BOOLEAN
  /\ value = IF mutex THEN 1 ELSE MaxValue
  /\ queue = <<>>
  /\ weightedWaiters = [w \in Weights |-> <<>>]
  /\ entries = [i \in ReqIds |-> NoEntry]
  /\ notify = [i \in WaiterIds |-> "none"]
  /\ runs = [r \in RunIds |-> NoRun]
  /\ src = [n \in Sources |-> IF n = "P" THEN [NoSource EXCEPT !.made = TRUE] ELSE NoSource]
  /\ deferred = <<>>
  /\ last = NoOp
  /\ log = <<>>

NextRun ==
  \/ \E r \in RunIds, id \in ReqIds, w \in RunWeights, p \in Priorities, tok \in RunTokens :
       RunExclusive(r, id, w, p, tok)
  \/ \E r \in RunIds : RunResume(r)
  \/ \E r \in RunIds, outcome \in {"return", "throw"} : RunBodyEnd(r, outcome)
  \/ \E id \in ReqIds, w \in RunWeights, p \in Priorities : Acquire(id, w, p)
  \/ \E id \in ReqIds : Releaser(id)
  \/ \E w \in Weights : ~mutex /\ Release(w)
  \/ MutexRelease
  \/ \E r \in Reasons : ~mutex /\ CancelPending(r)
  \/ MutexCancel
  \/ \E r \in Reasons : SourceCancel("P", r)

SpecRun == InitRun /\ [][NextRun]_vars

\* The same objects on which setValue, release(weight) and Mutex.release() are
\* never called: capacity moves only by grants and their release callbacks
NextCallbacksOnly ==
  \/ \E r \in RunIds, id \in ReqIds, w \in RunWeights, p \in Priorities, tok \in RunTokens :
       RunExclusive(r, id, w, p, tok)
  \/ \E r \in RunIds : RunResume(r)
  \/ \E r \in RunIds, outcome \in {"return", "throw"} : RunBodyEnd(r, outcome)
  \/ \E id \in ReqIds, w \in RunWeights, p \in Priorities : Acquire(id, w, p)
  \/ \E id \in ReqIds : Releaser(id)
  \/ \E r \in Reasons : ~mutex /\ CancelPending(r)
  \/ MutexCancel
  \/ \E r \in Reasons : SourceCancel("P", r)

SpecCallbacksOnly == InitRun /\ [][NextCallbacksOnly]_vars

\* Source P and a source C constructed with P.token as its parent
InitTok ==
  /\ mutex = FALSE
  /\ value = 0
  /\ queue = <<>>
  /\ weightedWaiters = [w \in Weights |-> <<>>]
  /\ entries = [i \in ReqIds |-> NoEntry]
  /\ notify = [i \in WaiterIds |-> "none"]
  /\ runs = [r \in RunIds |-> NoRun]
  /\ src = [n \in Sources |-> IF n = "P" THEN [NoSource EXCEPT !.made = TRUE] ELSE NoSource]
  /\ deferred = <<>>
  /\ last = NoOp
  /\ log = <<>>

NextTok ==
  \/ Construct
  \/ \E n \in Sources : ReadToken(n)
  \/ \E n \in Sources, r \in Reasons : SourceCancel(n, r)
  \/ \E n \in Sources, c \in BOOLEAN, r \in Reasons : SourceDispose(n, c, r)
  \/ RunDeferred

SpecTok == InitTok /\ [][NextTok]_vars

\* The two sources, and a caller's own listener on the token of each
NextListen ==
  \/ Construct
  \/ \E n \in Sources : ReadToken(n)
  \/ \E n \in Sources, r \in Reasons : SourceCancel(n, r)
  \/ \E n \in Sources, c \in BOOLEAN, r \in Reasons : SourceDispose(n, c, r)
  \/ RunDeferred
  \/ \E n \in Sources : Listen(n)
  \/ \E n \in Sources : DisposeHandle(n)

SpecListen == InitTok /\ [][NextListen]_vars

\* ------------------------------------------------------------- properties
\* `a` is served before `b`: strictly higher priority, or the same priority and an
\* earlier arrival (ids are handed out in arrival order)
Precedes(a, b) ==
  \/ a.priority > b.priority
  \/ a.priority = b.priority /\ a.id < b.id

Grants(l) == {k \in 1..Len(l) : l[k].kind = "grant"}
Resolutions(l) == {k \in 1..Len(l) : l[k].kind = "resolve"}

RECURSIVE GrantedWeight(_)
GrantedWeight(l) ==
  IF l = <<>> THEN 0
  ELSE (IF Head(l).kind = "grant" THEN Head(l).weight ELSE 0) + GrantedWeight(Tail(l))

FlushOps == {"release", "releaser", "setValue"}

\* C1: whenever a request is granted, inside acquire or by a flush, no request in
\* the queue at that moment has a strictly higher priority, or the same priority
\* and an earlier arrival.
C1_GrantOrder ==
  \A k \in Grants(log) :
    \A j \in 1..Len(log[k].queue) : ~Precedes(log[k].queue[j], log[k])

\* C1 witness: a flush granted a request that arrived after one it left queued
C1_Witness ==
  /\ last.op \in FlushOps
  /\ \E k \in Grants(log) : \E j \in 1..Len(log[k].queue) : log[k].queue[j].id < log[k].id

\* C2: acquire(weight, priority) grants within the call and debits weight exactly
\* when no queued request has priority >= the new one and weight <= capacity;
\* otherwise capacity is unchanged and the request is inserted directly after the
\* last queued request whose priority is >= its own.
C2_AcquireStep ==
  LET id == last'.id
      w == last'.weight
      p == last'.priority
      ahead == {k \in 1..Len(queue) : queue[k].priority >= p}
      pos == IF ahead = {} THEN 0 ELSE CHOOSE k \in ahead : \A j \in ahead : j <= k
  IN last'.op = "acquire" =>
       IF ahead = {} /\ w <= value
       THEN /\ entries'[id].st = "granted"
            /\ value' = value - w
            /\ queue' = queue
       ELSE /\ entries'[id].st = "pending"
            /\ value' = value
            /\ Len(queue') = Len(queue) + 1
            /\ queue'[pos + 1] = [id |-> id, weight |-> w, priority |-> p]
            /\ \A k \in 1..Len(queue) : queue'[IF k <= pos THEN k ELSE k + 1] = queue[k]

C2_AcquireContract == [][C2_AcquireStep]_vars

\* C2 witness: an acquire whose weight fitted was queued behind an older request
C2_Witness ==
  /\ last.op = "acquire"
  /\ last.weight <= last.pre
  /\ Len(queue) >= 2
  /\ queue[Len(queue)].id = last.id

\* C4: the first call of a grant's release callback credits capacity by exactly
\* the weight the grant reserved (the flush that follows debits what it grants);
\* every further call leaves capacity, queue and notify waiters unchanged.
C4_ReleaserStep ==
  LET id == last'.id
  IN last'.op = "releaser" =>
       IF entries[id].called
       THEN UNCHANGED semVars /\ log' = <<>>
       ELSE /\ entries'[id].called
            /\ value' + GrantedWeight(log') = value + entries[id].weight

C4_ReleaserOnce == [][C4_ReleaserStep]_vars

\* C4 witness: a release callback was called again and changed nothing
C4_Witness ==
  /\ last.op = "releaser"
  /\ entries[last.id].called
  /\ log = <<>>
  /\ value = last.pre

\* C5: a whenUnlock future is never resolved, in the call or by a flush, while the
\* queue holds a pending acquire whose priority is higher than the waiter's.
C5_NoResolveBelowPending ==
  \A k \in Resolutions(log) :
    \A j \in 1..Len(log[k].queue) : log[k].queue[j].priority <= log[k].priority

\* C5 witness: a flush resolved a registered waiter while requests were queued
C5_Witness ==
  \E k \in Resolutions(log) : log[k].id # 0 /\ log[k].queue # <<>>

\* A registered waiter that is still pending although its weight fits and no queue
\* head of the same or a higher priority stands before it
ReadyWaiters ==
  {x \in WaiterIds :
     /\ notify[x] = "pending"
     /\ \E w \in Weights : \E k \in 1..Len(weightedWaiters[w]) :
          /\ weightedWaiters[w][k].id = x
          /\ w <= value
          /\ (queue = <<>> \/ queue[1].priority < weightedWaiters[w][k].priority)}

\* C6 as stated: whatever operation drained the queue or removed the blocking
\* head, cancelPending included, no fitting unblocked waiter is left pending.
C6_Original == ReadyWaiters = {}

\* C6 amended: a release, a first call of a release callback and a setValue (with
\* the grants of their flush) leave no fitting unblocked waiter pending, and no
\* operation other than cancelPending makes a pending waiter fitting and unblocked.
C6_FlushStep ==
  /\ (\/ last'.op \in {"release", "setValue"}
      \/ last'.op = "releaser" /\ ~entries[last'.id].called)
     => ReadyWaiters' = {}
  /\ (last'.op # "cancelPending" /\ ReadyWaiters = {}) => ReadyWaiters' = {}

C6_ResolvedByFlush == [][C6_FlushStep]_vars

\* C6 witness: a flush granted the queue head and then resolved a registered
\* waiter against the emptied queue
C6_Witness ==
  /\ last.op \in FlushOps
  /\ \E g \in Grants(log) : \E k \in Resolutions(log) :
       g < k /\ log[k].id # 0 /\ log[k].queue = <<>>

\* C9: cancelPending(reason) rejects every queued request with reason and empties
\* the queue; capacity, the grants handed out and the whenUnlock waiters stay.
C9_CancelStep ==
  LET queued == {queue[k].id : k \in 1..Len(queue)}
  IN last'.op = "cancelPending" =>
       /\ queue' = <<>>
       /\ \A id \in queued : entries'[id].st = "rejected" /\ entries'[id].reason = last'.reason
       /\ \A id \in ReqIds \ queued : entries'[id] = entries[id]
       /\ value' = value
       /\ weightedWaiters' = weightedWaiters
       /\ notify' = notify

C9_CancelPendingFrame == [][C9_CancelStep]_vars

\* C9 witness: cancelPending rejected a queued request while a grant was
\* outstanding and a waiter registered
C9_Witness ==
  /\ last.op = "cancelPending"
  /\ \E k \in 1..Len(log) : log[k].kind = "reject" /\ entries[log[k].id].st = "rejected"
  /\ \E id \in ReqIds : entries[id].st = "granted" /\ ~entries[id].called
  /\ \E x \in WaiterIds : notify[x] = "pending"

\* C3: the capacity of a Mutex's semaphore never exceeds 1, whatever sequence of
\* acquire, release(), release callbacks, runExclusive and cancel drives it, and
\* release() changes nothing when the mutex is not locked.
C3_MutexCapacity ==
  mutex =>
    /\ value <= 1
    /\ (last.op = "mutexRelease" /\ last.pre > 0) => (value = last.pre /\ log = <<>>)

\* C7: when the body of a granted runExclusive finishes (returning or throwing,
\* the token cancelled or not), the release callback of its grant is called for
\* the first time and credits the granted weight (the flush that follows debits
\* what it grants); nothing else calls that callback; a Mutex is unlocked
\* afterwards unless that flush handed the lock to a queued request.
C7_BodyEndStep ==
  /\ \A r \in RunIds :
       (runs[r].pc = "body" /\ runs'[r].pc = "done") =>
         LET id == runs[r].req
         IN /\ ~entries[id].called
            /\ entries'[id].called
            /\ value' + GrantedWeight(log') = value + entries[id].weight
            /\ (mutex /\ Grants(log') = {}) => value' > 0
  /\ \A id \in ReqIds :
       ((\E r \in RunIds : runs'[r].req = id) /\ entries'[id].called # entries[id].called)
         => \E r \in RunIds : runs[r].req = id /\ runs[r].pc = "body" /\ runs'[r].pc = "done"

C7_ReleasedOnceAfterBody == [][C7_BodyEndStep]_vars

\* C7 witness: on a Mutex, a body returned after its token was cancelled: the
\* future is rejected, the weight is back and the mutex unlocked
C7_Witness ==
  /\ mutex
  /\ last.op = "runBodyEnd"
  /\ last.reason = "return"
  /\ runs[last.id].promise = "rejected"
  /\ entries[runs[last.id].req].called
  /\ value = 1

\* C8: the future of runExclusive is rejected within the call when the token is
\* already cancelled, is rejected by a cancellation that comes while the
\* acquisition is queued or the body runs, and never resolves once the token was
\* cancelled before the body finished.
C8_Step ==
  \A r \in RunIds :
    /\ (runs[r].pc = "idle" /\ runs'[r].pc # "idle" /\ tokenCancelled(Sem, runs'[r].tok))
         => (runs'[r].pc = "done" /\ runs'[r].promise = "rejected")
    /\ (/\ \/ runs[r].pc = "acquiring" /\ entries[runs[r].req].st = "pending"
           \/ runs[r].pc = "body"
        /\ ~tokenCancelled(Sem, runs[r].tok)
        /\ tokenCancelled(Sem', runs[r].tok))
         => runs'[r].promise = "rejected"
    /\ (runs[r].pc # "done" /\ runs'[r].pc = "done" /\ tokenCancelled(Sem, runs[r].tok))
         => runs'[r].promise = "rejected"

C8_RejectsOnCancel == [][C8_Step]_vars

\* C10: a source constructed with a live parent token has its own token cancelled
\* once the parent is cancelled, whether or not its token was read before.
C10_Cascade ==
  (/\ src["C"].made
   /\ src["C"].liveParent
   /\ ~src["C"].disposed
   /\ ~src["P"].disposed
   /\ isCancellationRequested(Sem, "P"))
    => isCancellationRequested(Sem, "C")

\* the caller's listener on the token of source n
UserListener(n) == Listener("user", n, 0)

Registered(n) ==
  \E k \in 1..Len(src[n].listeners) : src[n].listeners[k] = UserListener(n)

\* calls of the caller's listener waiting for a later turn of the event loop
DeferredCalls(n) == Cardinality({k \in 1..Len(deferred) : deferred[k] = UserListener(n)})

\* the reason the cancel() of the step was given (a deferred cascade passes none)
GivenReason(op) == IF op.op = "immediate" THEN "undefined" ELSE op.reason

\* C11: a cancel that finds a live token with the caller's listener registered
\* calls that listener once within the call, with the reason it was given (an
\* absent one included), and leaves the token without emitter.
C11_Step ==
  \A n \in Sources :
    (/\ src[n].token = "Mutable"
     /\ ~src[n].cancelled
     /\ Registered(n)
     /\ src'[n].cancelled)
      => /\ src'[n].heard = src[n].heard + 1
         /\ src'[n].arg = GivenReason(last')
         /\ src'[n].emitter = "null"

C11_ListenersFired == [][C11_Step]_vars

C13_Step ==
  \A n \in Sources :
    /\ isCancellationRequested(Sem, n) => isCancellationRequested(Sem', n)
    /\ (last'.op = "cancel" \o n /\ isCancellationRequested(Sem, n))
         => (src' = src /\ deferred' = deferred /\ runs' = runs)

C13_Monotonic == [][C13_Step]_vars

\* C13 witness: P was cancelled again after a listener registered on its cancelled
\* token had been called, and after the source had been disposed
C13_Witness ==
  /\ last.op = "cancelP"
  /\ src["P"].token = "Mutable" /\ src["P"].cancelled
  /\ src["P"].uhandle = "immediate" /\ src["P"].heard = 1
  /\ src["P"].disposed

\* C14: a listener registered on a token that was not cancelled is not called
\* once the caller has disposed what the registration returned, and a child
\* source disposed while its parent is live is no longer among the parent's
\* listeners.
C14_Step ==
  /\ \A n \in Sources :
       (src[n].uhandle = "none" /\ src[n].udisposed) => src'[n].heard = src[n].heard
  /\ (src'["C"].disposed /\ src'["C"].liveParent)
       => ~\E k \in 1..Len(src'["P"].listeners) : src'["P"].listeners[k].kind = "cascade"

C14_HandleDeregisters == [][C14_Step]_vars

\* C15: once a source is disposed with its token not cancelled, no later cancel
\* makes isCancellationRequested of its token true, materialized before or not.
C15_Step ==
  \A n \in Sources :
    (src[n].disposed /\ ~isCancellationRequested(Sem, n))
      => ~isCancellationRequested(Sem', n)

C15_DisposedStaysLive == [][C15_Step]_vars

\* the registered waiters of slot `w`, as positions of the slot
Slot(w) == 1..Len(weightedWaiters[w])

\* the capacity at the moment entry k of the log was written: the capacity now
\* plus what was granted after it
ValueAt(k) == value + GrantedWeight(SubSeq(log, k + 1, Len(log)))

\* the last operation ran a flush: a release, a setValue, or the first call of a
\* release callback (a further call credits nothing)
Flushed ==
  \/ last.op \in {"release", "setValue"}
  \/ last.op = "releaser" /\ value + GrantedWeight(log) > last.pre

\* C16: capacity is never negative, in particular not while the head of a
\* non-empty queue cannot be satisfied.
C16_CapacityNonNegative == value >= 0

\* C16 witness: with a grant outstanding, an acquire found no capacity left and
\* heads the queue unsatisfied
C16_Witness ==
  /\ last.op = "acquire"
  /\ value = 0
  /\ queue # <<>> /\ queue[1].weight > value
  /\ \E id \in ReqIds : entries[id].st = "granted" /\ ~entries[id].called

\* C17 as stated: a notify pass that finds the queue non-empty resolves only
\* waiters whose priority is <= the priority pp of the queue head.
C17_Original ==
  \A k \in Resolutions(log) :
    (log[k].id # 0 /\ log[k].queue # <<>>) => log[k].priority <= log[k].queue[1].priority

\* C17 amended: a notify pass that finds the queue non-empty resolves only waiters
\* whose priority is strictly higher than the priority pp of the queue head, from
\* slots no larger than the capacity; a waiter of priority <= pp is not resolved
\* by it, and a waiter that is not resolved stays in its slot.
C17_ResolvesAboveHead ==
  /\ \A k \in Resolutions(log) :
       (log[k].id # 0 /\ log[k].queue # <<>>)
         => (log[k].priority > log[k].queue[1].priority /\ log[k].weight <= ValueAt(k))
  /\ \A x \in WaiterIds :
       notify[x] = "pending" => \E w \in Weights : \E k \in Slot(w) : weightedWaiters[w][k].id = x

\* C17 witness: a flush resolved a registered waiter of priority 5 over a queue
\* head of priority 0 that it could not grant
C17_Witness ==
  /\ last.op \in FlushOps
  /\ queue # <<>>
  /\ Grants(log) = {}
  /\ \E k \in Resolutions(log) :
       log[k].id # 0 /\ log[k].queue = queue /\ log[k].priority > queue[1].priority

\* C18: no weight slot holds a waiter that has already been resolved: every
\* waiter a notify pass resolves is taken out of its slot by that pass.
C18_ResolvedRemoved ==
  \A w \in Weights : \A k \in Slot(w) : notify[weightedWaiters[w][k].id] = "pending"

\* the registered whenUnlock(1, priority 0) waiters that are still pending
PendingUnitWaiters ==
  {k \in Slot(1) : weightedWaiters[1][k].priority = 0 /\ notify[weightedWaiters[1][k].id] = "pending"}

\* C19 as stated: with a whenUnlock(1, 0) waiter registered and an acquire(1, 5)
\* queued at capacity 0, a flush that runs at capacity 0 resolves the waiter.
C19_Original ==
  (/\ last.op = "setValue" /\ last.pre = 0 /\ value = 0
   /\ queue # <<>> /\ queue[1].weight = 1 /\ queue[1].priority = 5)
    => PendingUnitWaiters = {}

\* C19 amended: a registered whenUnlock(1, 0) waiter is resolved only at a moment
\* when capacity is at least 1 and the queue is empty or headed by a request of
\* priority below 0, so not by a flush at capacity 0 and not while an
\* acquire(1, 5) is queued; a flush that ends with capacity at least 1 and the
\* queue empty leaves no such waiter pending.
C19_ResolvedWithCapacity ==
  /\ \A k \in Resolutions(log) :
       (log[k].id # 0 /\ log[k].weight = 1 /\ log[k].priority = 0)
         => /\ ValueAt(k) >= 1
            /\ (log[k].queue = <<>> \/ log[k].queue[1].priority < 0)
  /\ (Flushed /\ queue = <<>> /\ value >= 1) => PendingUnitWaiters = {}

\* C19 witness: setValue(0) flushed at capacity 0 with an acquire(1, 5) at the
\* head of the queue, and the whenUnlock(1, 0) waiter is still pending
C19_Witness ==
  /\ last.op = "setValue" /\ last.pre = 0 /\ value = 0
  /\ queue # <<>> /\ queue[1].weight = 1 /\ queue[1].priority = 5
  /\ PendingUnitWaiters # {}
  /\ log = <<>>

\* C20: after every operation the queue is empty or its head weighs more than
\* the capacity, and a setValue that raises the capacity grants and resolves
\* exactly what a release reaching that capacity grants and resolves.
C20_Step ==
  /\ queue' = <<>> \/ queue'[1].weight > value'
  /\ (last'.op = "setValue" /\ last'.weight > value)
       => LET t == DoRelease(Sem, last'.weight - value)
          IN /\ value' = t.value
             /\ queue' = t.queue
             /\ weightedWaiters' = t.ww
             /\ entries' = t.entries
             /\ notify' = t.notify
             /\ log' = t.log

C20_NoFittingHeadLeft == [][C20_Step]_vars

\* C20 witness: a setValue granted the head of the queue and left the next
\* request, which does not fit, at the head
C20_Witness ==
  /\ last.op = "setValue"
  /\ last.weight > last.pre
  /\ Grants(log) # {}
  /\ queue # <<>> /\ queue[1].weight > value

\* C21: a cancellation of the token that comes while the acquisition of a
\* runExclusive is queued leaves the queue, the capacity and every request as
\* they are; when the request is granted afterwards the returned future has
\* already rejected and the body is entered all the same; and the end of the body
\* calls the release callback, crediting the granted weight.
C21_Step ==
  \A r \in RunIds :
    /\ (/\ runs[r].pc = "acquiring"
        /\ entries[runs[r].req].st = "pending"
        /\ ~tokenCancelled(Sem, runs[r].tok)
        /\ tokenCancelled(Sem', runs[r].tok))
         => (queue' = queue /\ value' = value /\ entries' = entries /\ runs'[r].pc = "acquiring")
    /\ (/\ runs[r].pc = "acquiring"
        /\ entries[runs[r].req].st = "pending"
        /\ entries'[runs[r].req].st = "granted"
        /\ tokenCancelled(Sem, runs[r].tok))
         => runs[r].promise = "rejected"
    /\ (/\ runs[r].pc = "acquiring"
        /\ runs'[r].pc # "acquiring"
        /\ entries[runs[r].req].st = "granted")
         => runs'[r].pc = "body"
    /\ (/\ runs[r].pc = "body"
        /\ runs'[r].pc # "body"
        /\ tokenCancelled(Sem, runs[r].tok))
         => /\ entries'[runs[r].req].called
            /\ value' + GrantedWeight(log') = value + entries[runs[r].req].weight

C21_CancelWhileQueued == [][C21_Step]_vars

\* the grants whose release callback has not been called yet
Outstanding == {id \in ReqIds : entries[id].st = "granted" /\ ~entries[id].called}

RECURSIVE WeightOf(_)
WeightOf(ids) ==
  IF ids = {} THEN 0
  ELSE LET id == CHOOSE x \in ids : TRUE
       IN entries[id].weight + WeightOf(ids \ {id})

\* the capacity the constructor was given
InitialCapacity == IF mutex THEN 1 ELSE MaxValue

\* C22: where setValue and the direct release are never called, capacity plus the
\* weights of the grants whose release callback has not been called equals the
\* initial capacity, and a Mutex has at most one such grant.
C22_Conservation ==
  /\ value + WeightOf(Outstanding) = InitialCapacity
  /\ mutex => Cardinality(Outstanding) <= 1

\* C22 witness: on a Mutex, the release callback of the first grant was called
\* and the lock is held by the second grant
C22_Witness ==
  /\ mutex
  /\ value = 0
  /\ \E a \in ReqIds : entries[a].st = "granted" /\ entries[a].called
  /\ Cardinality(Outstanding) = 1

====
